---- MODULE Spec2Model ----
(***************************************************************************)
(* Query builder and cursor pagination of firestore-repo-service:          *)
(*   src/src/query-builder.ts   (splitting, expansion, fan-out and merge)  *)
(*   src/src/shared/types.ts    (executePaginatedQuery and the iterator)   *)
(* The Firestore backend is the environment: a static collection that      *)
(* answers one primitive query per request, or fails the request.          *)
(***************************************************************************)
EXTENDS Integers, Sequences, FiniteSets, TLC

VARIABLES
    coll,        \* the static collection: [n, stride, layout]
    mode,        \* entry point in use: "paginateAll", "paginate", "walk", "query", ...
    opts,        \* the caller's options object
    pc,          \* position of the caller / generator
    cursor,      \* createPaginationIterator: let cursor
    hasMore,     \* createPaginationIterator: let hasMore
    callOpts,    \* options of the executePaginatedQuery call in progress
    queries,     \* primitive queries dispatched by the call in progress
    viaMerge,    \* TRUE when the call went through executeAndMergeQueries
    snapshots,   \* per dispatched query: pending, ok (with docs) or failed
    merged,      \* docs of the snapshot last returned by buildAndExecuteQuery
    pages,       \* PaginationResults returned / yielded so far, in order
    error,       \* "none", or the error the call / sequence failed with
    clause,      \* input of splitWhereClause (pure-function specification)
    splitOut,    \* output of splitWhereClause
    splitClauses,   \* buildAndExecuteQuery: const splitClauses
    combinations,   \* buildAndExecuteQuery: const combinations
    completed,   \* indices of the queries of the call, in order of completion
    iterators    \* paginateAll: the active generator and the suspended one

vars == <<coll, mode, opts, pc, cursor, hasMore, callOpts, queries, viaMerge,
          snapshots, merged, pages, error, clause, splitOut,
          splitClauses, combinations, completed, iterators>>

(***************************************************************************)
(* Bounds of the model                                                     *)
(***************************************************************************)
MaxDocs == 5
MaxPageSize == 3
MaxOperandLen == 62
MaxSplitLen == 95
BigDocs == 35
MaxCalls == 2
MaxGroupLen == 3
MaxWalkCalls == 4
MaxConcurrentPageSize == 2

(***************************************************************************)
(* Program constants                                                       *)
(***************************************************************************)
\* needsSplitting: value.length > 30
SplitThreshold == 30
\* splitWhereClause: chunkArray(value, 30)
ChunkSize == 30

Min(a, b) == IF a < b THEN a ELSE b

CeilDiv(a, b) == (a + b - 1) \div b

(***************************************************************************)
(* Where clauses: the tuple [field, operator, value].  A value is a scalar  *)
(* (isArray = FALSE, one item) or an array of scalars (isArray = TRUE).     *)
(***************************************************************************)
Scalar(v) == [isArray |-> FALSE, items |-> <<v>>]

Array(s) == [isArray |-> TRUE, items |-> s]

Clause(f, o, v) == [field |-> f, operator |-> o, value |-> v]

\* operand sequences of length n: ascending, descending, or with repeats
\* (of period 7, or of the period of the chunks)
Operand(n, pat) ==
    [j \in 1..n |-> CASE pat = "asc"  -> j
                      [] pat = "desc" -> n + 1 - j
                      [] pat = "rep"  -> ((j - 1) % ChunkSize) + 1
                      [] OTHER        -> ((j - 1) % 7) + 1]

OperandPatterns == {"asc", "desc", "mod", "rep"}

\* Array.prototype.slice(from, to) on a 0-based array
Slice(array, from, to) == SubSeq(array, from + 1, Min(to, Len(array)))

\* chunkArray: for (let i = 0; i < array.length; i += size) chunks.push(slice)
RECURSIVE chunkLoop(_, _, _, _)
chunkLoop(array, size, i, chunks) ==
    IF i < Len(array)
    THEN chunkLoop(array, size, i + size,
                   Append(chunks, Slice(array, i, i + size)))
    ELSE chunks

chunkArray_dropTail(array, size) ==
    chunkLoop(SubSeq(array, 1, (Len(array) \div size) * size), size, 0, <<>>)

chunkArray(array, size) == chunkLoop(array, size, 0, <<>>)

needsSplitting_anyOperator(c) ==
    /\ c.value.isArray
    /\ Len(c.value.items) > SplitThreshold

needsSplitting(c) ==
    /\ c.operator \in {"in", "array-contains-any"}
    /\ c.value.isArray
    /\ Len(c.value.items) > SplitThreshold

splitWhereClause_firstChunk(c) ==
    IF ~needsSplitting(c)
    THEN <<c>>
    ELSE <<Clause(c.field, c.operator,
                  Array(chunkArray(c.value.items, ChunkSize)[1]))>>

splitWhereClause(c) ==
    IF ~needsSplitting(c)
    THEN <<c>>
    ELSE LET chunks == chunkArray(c.value.items, ChunkSize)
         IN  [k \in 1..Len(chunks) |->
                 Clause(c.field, c.operator, Array(chunks[k]))]

(***************************************************************************)
(* The static collection.  Document k (1..n) has identity                  *)
(* IdOf(k) = 1 + (k-1)*stride, so that a small collection straddles the    *)
(* chunks of an oversized operand list.  Field values are fixed by layout.  *)
(***************************************************************************)
NoDoc == [id |-> 0, q |-> 0]

IdOf(c, k) == 1 + (k - 1) * c.stride

KOf(c, id) == ((id - 1) \div c.stride) + 1

DocIds(c) == [k \in 1..c.n |-> IdOf(c, k)]

Tags(c, id) == {id, id + 30}

FieldValue(c, id, field) ==
    CASE field = "docId"  -> id
      [] field = "views"  -> IF c.layout = "distinct"
                             THEN (KOf(c, id) * 11) % 37
                             ELSE KOf(c, id) % 3
      [] field = "status" -> IF KOf(c, id) % 3 = 0 THEN 0 ELSE 1
      [] OTHER            -> 0

InItems(v, items) == \E j \in 1..Len(items) : items[j] = v

\* Query.where(field, operator, value) as evaluated by the backend
Matches(c, id, cl) ==
    CASE cl.operator = "=="  -> FieldValue(c, id, cl.field) = cl.value.items[1]
      [] cl.operator = ">="  -> FieldValue(c, id, cl.field) >= cl.value.items[1]
      [] cl.operator = "<="  -> FieldValue(c, id, cl.field) <= cl.value.items[1]
      [] cl.operator = "in"  -> InItems(FieldValue(c, id, cl.field), cl.value.items)
      [] cl.operator = "array-contains-any" ->
             \E t \in Tags(c, id) : InItems(t, cl.value.items)
      [] OTHER -> FALSE

MatchesAll(c, id, clauses) ==
    \A j \in 1..Len(clauses) : Matches(c, id, clauses[j])

\* comparison by an orderBy list: -1, 0 or 1
RECURSIVE CompareBy(_, _, _, _)
CompareBy(c, a, b, orderBy) ==
    IF orderBy = <<>> THEN 0
    ELSE LET o  == Head(orderBy)
             va == FieldValue(c, a, o.field)
             vb == FieldValue(c, b, o.field)
         IN  IF va = vb THEN CompareBy(c, a, b, Tail(orderBy))
             ELSE IF (va < vb) = (o.direction = "asc") THEN -1 ELSE 1

\* the backend breaks ties by document id, in the direction of the last orderBy
IdDirection(orderBy) ==
    IF orderBy = <<>> THEN "asc" ELSE orderBy[Len(orderBy)].direction

Before(c, a, b, orderBy) ==
    LET r == CompareBy(c, a, b, orderBy)
    IN  \/ r < 0
        \/ r = 0 /\ a # b /\ ((a < b) = (IdDirection(orderBy) = "asc"))

Sorted(c, ids, orderBy) ==
    SortSeq(ids, LAMBDA a, b : Before(c, a, b, orderBy))

Drop(s, k) == SubSeq(s, k + 1, Len(s))

Take(s, k) == SubSeq(s, 1, Min(k, Len(s)))

\* Query.get(): filter, order, cursor bounds, offset, limit
RunQuery(c, q) ==
    LET matching == SelectSeq(DocIds(c), LAMBDA id : MatchesAll(c, id, q.where))
        ordered  == Sorted(c, matching, q.orderBy)
        after    == IF q.startAfter = NoDoc THEN ordered
                    ELSE SelectSeq(ordered,
                           LAMBDA id : Before(c, q.startAfter.id, id, q.orderBy))
        before   == IF q.endBefore = NoDoc THEN after
                    ELSE SelectSeq(after,
                           LAMBDA id : Before(c, id, q.endBefore.id, q.orderBy))
        skipped  == Drop(before, q.offset)
    IN  IF q.limit = 0 THEN skipped ELSE Take(skipped, q.limit)

(***************************************************************************)
(* query-builder.ts                                                        *)
(***************************************************************************)
\* the collection reference every query starts from
baseQuery ==
    [where |-> <<>>, orderBy |-> <<>>, limit |-> 0, offset |-> 0,
     startAfter |-> NoDoc, endBefore |-> NoDoc]

applyWhereClausesToQuery(q, whereClauses) ==
    [q EXCEPT !.where = @ \o whereClauses]

applyBasicQueryOptions_noCursor(q, options) ==
    [q EXCEPT
       !.orderBy = @ \o [j \in 1..Len(options.orderBy) |->
                           [field |-> options.orderBy[j].field,
                            direction |-> IF options.orderBy[j].direction = "none"
                                          THEN "asc"
                                          ELSE options.orderBy[j].direction]],
       !.limit = IF options.limit # 0 THEN options.limit ELSE @,
       !.offset = IF options.offset # 0 THEN options.offset ELSE @]

applyBasicQueryOptions(q, options) ==
    [q EXCEPT
       !.orderBy = @ \o [j \in 1..Len(options.orderBy) |->
                           [field |-> options.orderBy[j].field,
                            direction |-> IF options.orderBy[j].direction = "none"
                                          THEN "asc"
                                          ELSE options.orderBy[j].direction]],
       !.limit = IF options.limit # 0 THEN options.limit ELSE @,
       !.offset = IF options.offset # 0 THEN options.offset ELSE @,
       !.startAfter = IF options.startAfter # NoDoc THEN options.startAfter ELSE @,
       !.endBefore = IF options.endBefore # NoDoc THEN options.endBefore ELSE @]

RECURSIVE cartesianProduct_firstRest(_)
cartesianProduct_firstRest(arrays) ==
    IF Len(arrays) = 0 THEN << <<>> >>
    ELSE LET first == arrays[1]
         IN  IF Len(arrays) = 1
             THEN [i \in 1..Len(first) |-> <<first[i]>>]
             ELSE LET restProduct == cartesianProduct_firstRest(Tail(arrays))
                  IN  [r \in 1..Len(first) |-> <<first[r]>> \o restProduct[1]]

RECURSIVE cartesianProduct(_)
cartesianProduct(arrays) ==
    IF Len(arrays) = 0 THEN << <<>> >>
    ELSE LET first == arrays[1]
         IN  IF Len(arrays) = 1
             THEN [i \in 1..Len(first) |-> <<first[i]>>]
             ELSE LET restProduct == cartesianProduct(Tail(arrays))
                      m == Len(restProduct)
                  IN  [r \in 1..(Len(first) * m) |->
                         <<first[((r - 1) \div m) + 1]>>
                            \o restProduct[((r - 1) % m) + 1]]

someNeedsSplitting_never(clauses) == FALSE

\* Array.prototype.some with needsSplitting
someNeedsSplitting(clauses) ==
    \E j \in 1..Len(clauses) : needsSplitting(clauses[j])

RECURSIVE Flatten(_)
Flatten(ss) == IF ss = <<>> THEN <<>> ELSE Head(ss) \o Flatten(Tail(ss))

groupQueries_optionsOnFirst(base, group, options) ==
    IF ~someNeedsSplitting(group)
    THEN <<applyBasicQueryOptions(applyWhereClausesToQuery(base, group), options)>>
    ELSE LET split  == [j \in 1..Len(group) |-> splitWhereClause(group[j])]
             combos == cartesianProduct(split)
         IN  [r \in 1..Len(combos) |->
                IF r = 1
                THEN applyBasicQueryOptions(
                        applyWhereClausesToQuery(base, combos[r]), options)
                ELSE applyWhereClausesToQuery(base, combos[r])]

\* the primitive queries of one AND group
groupQueries(base, group, options) ==
    IF ~someNeedsSplitting(group)
    THEN <<applyBasicQueryOptions(applyWhereClausesToQuery(base, group), options)>>
    ELSE LET split  == [j \in 1..Len(group) |-> splitWhereClause(group[j])]
             combos == cartesianProduct(split)
         IN  [r \in 1..Len(combos) |->
                applyBasicQueryOptions(
                    applyWhereClausesToQuery(base, combos[r]), options)]

buildAndExecuteQuery_lastGroupOnly(base, options) ==
    IF options.hasWhere /\ ~options.hasOrWhere
    THEN [queries  |-> groupQueries(base, options.where, options),
          viaMerge |-> someNeedsSplitting(options.where)]
    ELSE IF options.hasOrWhere
    THEN [queries  |-> IF options.orWhere = <<>> THEN <<>>
                       ELSE groupQueries(base,
                               options.orWhere[Len(options.orWhere)], options),
          viaMerge |-> TRUE]
    ELSE [queries  |-> <<applyBasicQueryOptions(base, options)>>,
          viaMerge |-> FALSE]

buildAndExecuteQuery_whereInEveryGroup(base, options) ==
    IF options.hasWhere /\ ~options.hasOrWhere
    THEN [queries  |-> groupQueries(base, options.where, options),
          viaMerge |-> someNeedsSplitting(options.where)]
    ELSE IF options.hasOrWhere
    THEN [queries  |-> Flatten([g \in 1..Len(options.orWhere) |->
                                  groupQueries(base,
                                      options.where \o options.orWhere[g], options)]),
          viaMerge |-> TRUE]
    ELSE [queries  |-> <<applyBasicQueryOptions(base, options)>>,
          viaMerge |-> FALSE]

\* the synchronous part of buildAndExecuteQuery: the queries whose get() is
\* called, and whether their snapshots go through executeAndMergeQueries
buildAndExecuteQuery(base, options) ==
    IF options.hasWhere /\ ~options.hasOrWhere
    THEN [queries  |-> groupQueries(base, options.where, options),
          viaMerge |-> someNeedsSplitting(options.where)]
    ELSE IF options.hasOrWhere
    THEN [queries  |-> Flatten([g \in 1..Len(options.orWhere) |->
                                  groupQueries(base, options.orWhere[g], options)]),
          viaMerge |-> TRUE]
    ELSE [queries  |-> <<applyBasicQueryOptions(base, options)>>,
          viaMerge |-> FALSE]

\* docsMap: insertion-ordered, keyed by doc.id, first occurrence kept
RECURSIVE addDocs(_, _)
addDocs(docsMap, docs) ==
    IF docs = <<>> THEN docsMap
    ELSE addDocs(IF \E k \in 1..Len(docsMap) : docsMap[k].id = Head(docs).id
                 THEN docsMap
                 ELSE Append(docsMap, Head(docs)),
                 Tail(docs))

RECURSIVE mergeSnapshots(_, _)
mergeSnapshots(docsMap, snaps) ==
    IF snaps = <<>> THEN docsMap
    ELSE mergeSnapshots(addDocs(docsMap, Head(snaps).docs), Tail(snaps))

executeAndMergeQueries_noDedup(snaps) ==
    Flatten([j \in 1..Len(snaps) |-> snaps[j].docs])

executeAndMergeQueries_completionOrder(snaps) ==
    mergeSnapshots(<<>>, [k \in 1..Len(completed) |-> snaps[completed[k]]])

executeAndMergeQueries(snaps) == mergeSnapshots(<<>>, snaps)

(***************************************************************************)
(* shared/types.ts: pagination                                             *)
(***************************************************************************)
paginatedQueryOptions_noExtra(options) ==
    [hasWhere   |-> options.hasWhere,
     where      |-> options.where,
     hasOrWhere |-> options.hasOrWhere,
     orWhere    |-> options.orWhere,
     orderBy    |-> options.orderBy,
     offset     |-> options.offset,
     limit      |-> options.pageSize,
     startAfter |-> IF options.cursor # NoDoc /\ options.direction # "prev"
                    THEN options.cursor ELSE NoDoc,
     endBefore  |-> IF options.cursor # NoDoc /\ options.direction = "prev"
                    THEN options.cursor ELSE NoDoc]

paginatedQueryOptions_alwaysAfter(options) ==
    [hasWhere   |-> options.hasWhere,
     where      |-> options.where,
     hasOrWhere |-> options.hasOrWhere,
     orWhere    |-> options.orWhere,
     orderBy    |-> options.orderBy,
     offset     |-> options.offset,
     limit      |-> options.pageSize + 1,
     startAfter |-> options.cursor,
     endBefore  |-> NoDoc]

\* const queryOptions = {...options, limit: pageSize + 1}; then the cursor
paginatedQueryOptions(options) ==
    [hasWhere   |-> options.hasWhere,
     where      |-> options.where,
     hasOrWhere |-> options.hasOrWhere,
     orWhere    |-> options.orWhere,
     orderBy    |-> options.orderBy,
     offset     |-> options.offset,
     limit      |-> options.pageSize + 1,
     startAfter |-> IF options.cursor # NoDoc /\ options.direction # "prev"
                    THEN options.cursor ELSE NoDoc,
     endBefore  |-> IF options.cursor # NoDoc /\ options.direction = "prev"
                    THEN options.cursor ELSE NoDoc]

paginationResult_atLeast(docs, options) ==
    LET more       == Len(docs) >= options.pageSize
        actualDocs == IF more THEN Slice(docs, 0, options.pageSize) ELSE docs
        data       == [j \in 1..Len(actualDocs) |-> actualDocs[j].id]
    IN  [data        |-> data,
         nextCursor  |-> IF more THEN actualDocs[Len(actualDocs)] ELSE NoDoc,
         prevCursor  |-> IF Len(actualDocs) > 0 THEN actualDocs[1] ELSE NoDoc,
         hasNextPage |-> more,
         hasPrevPage |-> options.cursor # NoDoc,
         pageSize    |-> Len(data)]

paginationResult_noPrevOnFirst(docs, options) ==
    LET more       == Len(docs) > options.pageSize
        actualDocs == IF more THEN Slice(docs, 0, options.pageSize) ELSE docs
        data       == [j \in 1..Len(actualDocs) |-> actualDocs[j].id]
    IN  [data        |-> data,
         nextCursor  |-> IF more THEN actualDocs[Len(actualDocs)] ELSE NoDoc,
         prevCursor  |-> IF Len(actualDocs) > 0 /\ options.cursor # NoDoc
                         THEN actualDocs[1] ELSE NoDoc,
         hasNextPage |-> more,
         hasPrevPage |-> options.cursor # NoDoc,
         pageSize    |-> Len(data)]

\* the part of executePaginatedQuery after the await
paginationResult(docs, options) ==
    LET more       == Len(docs) > options.pageSize
        actualDocs == IF more THEN Slice(docs, 0, options.pageSize) ELSE docs
        data       == [j \in 1..Len(actualDocs) |-> actualDocs[j].id]
    IN  [data        |-> data,
         nextCursor  |-> IF more THEN actualDocs[Len(actualDocs)] ELSE NoDoc,
         prevCursor  |-> IF Len(actualDocs) > 0 THEN actualDocs[1] ELSE NoDoc,
         hasNextPage |-> more,
         hasPrevPage |-> options.cursor # NoDoc,
         pageSize    |-> Len(data)]

(***************************************************************************)
(* Inputs                                                                  *)
(***************************************************************************)
SmallColls ==
    {[n |-> n, stride |-> 13, layout |-> l] :
        n \in 0..MaxDocs, l \in {"distinct", "ties"}}

BigColl == [n |-> BigDocs, stride |-> 1, layout |-> "distinct"]

OrderBys ==
    { <<>>,
      <<[field |-> "views", direction |-> "desc"]>>,
      <<[field |-> "status", direction |-> "none"],
        [field |-> "views", direction |-> "asc"]>> }

Filter(hw, w, how, ow) ==
    [hasWhere |-> hw, where |-> w, hasOrWhere |-> how, orWhere |-> ow]

StatusIs(v) == Clause("status", "==", Scalar(v))

IdIn(n, pat) == Clause("docId", "in", Array(Operand(n, pat)))

TagsAny(n, pat) == Clause("tags", "array-contains-any", Array(Operand(n, pat)))

\* filters that execute as one primitive query without a merge
SimpleFilters ==
    { Filter(FALSE, <<>>, FALSE, <<>>),
      Filter(TRUE, <<>>, FALSE, <<>>),
      Filter(TRUE, <<StatusIs(1)>>, FALSE, <<>>),
      Filter(TRUE, <<IdIn(SplitThreshold, "asc")>>, FALSE, <<>>) }

\* filters that go through executeAndMergeQueries
MergeFilters ==
    { Filter(TRUE, <<IdIn(SplitThreshold + 1, "asc")>>, FALSE, <<>>),
      Filter(TRUE, <<IdIn(MaxOperandLen, "desc")>>, FALSE, <<>>),
      Filter(TRUE, <<TagsAny(MaxOperandLen, "asc")>>, FALSE, <<>>),
      Filter(TRUE, <<IdIn(SplitThreshold + 1, "asc"),
                     TagsAny(SplitThreshold + 1, "desc")>>, FALSE, <<>>),
      Filter(FALSE, <<>>, TRUE, << <<StatusIs(0)>>, <<StatusIs(1)>> >>),
      Filter(FALSE, <<>>, TRUE,
             << <<Clause("views", ">=", Scalar(1))>>, <<StatusIs(1)>> >>),
      Filter(FALSE, <<>>, TRUE,
             << <<IdIn(SplitThreshold + 1, "asc")>>, <<StatusIs(0)>> >>),
      Filter(TRUE, <<StatusIs(0)>>, TRUE, << <<StatusIs(1)>> >>),
      Filter(FALSE, <<>>, TRUE, <<>>) }

\* filters with an empty operand list
MalformedFilters ==
    { Filter(TRUE, <<IdIn(0, "asc")>>, FALSE, <<>>),
      Filter(FALSE, <<>>, TRUE, << <<StatusIs(1)>>, <<TagsAny(0, "asc")>> >>) }

Filters == SimpleFilters \cup MergeFilters \cup MalformedFilters

Options(f, ob, off, ps) ==
    [hasWhere |-> f.hasWhere, where |-> f.where,
     hasOrWhere |-> f.hasOrWhere, orWhere |-> f.orWhere,
     orderBy |-> ob, offset |-> off, pageSize |-> ps]

\* the options of one executePaginatedQuery call
PaginationOptions(o, cur, dir) ==
    [hasWhere |-> o.hasWhere, where |-> o.where,
     hasOrWhere |-> o.hasOrWhere, orWhere |-> o.orWhere,
     orderBy |-> o.orderBy, offset |-> o.offset, pageSize |-> o.pageSize,
     cursor |-> cur, direction |-> dir]

\* the options of a direct buildAndExecuteQuery call: no result cap
QueryOptions(o) ==
    [hasWhere |-> o.hasWhere, where |-> o.where,
     hasOrWhere |-> o.hasOrWhere, orWhere |-> o.orWhere,
     orderBy |-> o.orderBy, offset |-> o.offset, limit |-> 0,
     startAfter |-> NoDoc, endBefore |-> NoDoc]

NoClause == Clause("", "", Scalar(0))

NoCallOpts == PaginationOptions(Options(Filter(FALSE, <<>>, FALSE, <<>>), <<>>, 0, 0),
                                NoDoc, "none")

\* the locals of one generator: its position, cursor, hasMore, and the call
\* it is making
Frame(p, c, h, co, qs, vm, sn, mg, pg, er, cp) ==
    [pc |-> p, cursor |-> c, hasMore |-> h, callOpts |-> co, queries |-> qs,
     viaMerge |-> vm, snapshots |-> sn, merged |-> mg, pages |-> pg,
     error |-> er, completed |-> cp]

NoFrame == Frame("none", NoDoc, TRUE, NoCallOpts, <<>>, FALSE, <<>>, <<>>, <<>>,
                 "none", <<>>)

\* createPaginationIterator: let cursor; let hasMore = true
NewFrame == Frame("start", NoDoc, TRUE, NoCallOpts, <<>>, FALSE, <<>>, <<>>, <<>>,
                  "none", <<>>)

ActiveFrame == Frame(pc, cursor, hasMore, callOpts, queries, viaMerge, snapshots,
                     merged, pages, error, completed)

\* the active generator is the first one and no other exists
OneIterator == [active |-> 1, suspended |-> NoFrame, firstHad |-> 0]

(***************************************************************************)
(* Specification of the query and pagination entry points                  *)
(***************************************************************************)
\* filters of the direct paginate calls
PaginateFilters ==
    { Filter(FALSE, <<>>, FALSE, <<>>),
      Filter(TRUE, <<IdIn(SplitThreshold + 1, "asc")>>, FALSE, <<>>),
      Filter(FALSE, <<>>, TRUE,
             << <<Clause("views", ">=", Scalar(1))>>, <<StatusIs(1)>> >>),
      Filter(TRUE, <<StatusIs(1), IdIn(0, "asc")>>, FALSE, <<>>) }

\* filters of a caller that walks the pages forward and then steps back
WalkFilters ==
    { Filter(FALSE, <<>>, FALSE, <<>>),
      Filter(TRUE, <<StatusIs(1)>>, FALSE, <<>>) }

Init ==
    /\ \/ /\ coll \in SmallColls
          /\ mode \in {"paginateAll", "query"}
          /\ \E f \in Filters, ob \in OrderBys, ps \in 1..MaxPageSize,
                off \in (IF coll.layout = "distinct" THEN 0..1 ELSE {0}) :
                opts = Options(f, ob, off, ps)
       \/ /\ coll \in SmallColls
          /\ mode = "paginate"
          /\ \E f \in PaginateFilters, ob \in OrderBys, ps \in 1..MaxPageSize :
                opts = Options(f, ob, 0, ps)
       \/ /\ coll \in SmallColls
          /\ mode = "walk"
          /\ \E f \in WalkFilters, ob \in OrderBys, ps \in 1..MaxPageSize :
                opts = Options(f, ob, 0, ps)
       \/ /\ coll = BigColl
          /\ mode \in {"paginate", "query"}
          /\ \E f \in {Filter(TRUE, <<IdIn(BigDocs, "asc")>>, FALSE, <<>>)},
                ob \in OrderBys :
                opts = Options(f, ob, 0, BigDocs + 15)
    /\ pc = "start"
    /\ cursor = NoDoc
    /\ hasMore = TRUE
    /\ callOpts = NoCallOpts
    /\ queries = <<>>
    /\ viaMerge = FALSE
    /\ snapshots = <<>>
    /\ merged = <<>>
    /\ pages = <<>>
    /\ error = "none"
    /\ clause = NoClause
    /\ splitOut = <<>>
    /\ splitClauses = <<>>
    /\ combinations = <<>>
    /\ completed = <<>>
    /\ iterators = OneIterator

Pending == [status |-> "pending", docs |-> <<>>]

\* an 'in' / 'array-contains-any' predicate with an empty operand list
Malformed(cl) ==
    /\ cl.operator \in {"in", "array-contains-any"}
    /\ cl.value.isArray
    /\ Len(cl.value.items) = 0

MalformedQuery(q) == \E j \in 1..Len(q.where) : Malformed(q.where[j])

\* buildAndExecuteQuery up to its await.  The code checks no predicate itself:
\* it hands each one to Query.where of the Firestore client, and calls get()
\* on every query built.  For a malformed predicate the client either throws
\* in where(), before any get(), or accepts it and leaves the rejection to
\* the backend.
Dispatch(options) ==
    LET plan == buildAndExecuteQuery(baseQuery, options)
    IN  \/ /\ queries' = plan.queries
           /\ viaMerge' = plan.viaMerge
           /\ snapshots' = [j \in 1..Len(plan.queries) |-> Pending]
           /\ completed' = <<>>
           /\ pc' = "awaiting"
           /\ error' = error
        \/ /\ \E j \in 1..Len(plan.queries) : MalformedQuery(plan.queries[j])
           /\ queries' = <<>>
           /\ viaMerge' = plan.viaMerge
           /\ snapshots' = <<>>
           /\ completed' = <<>>
           /\ pc' = "failed"
           /\ error' = "invalid query"

\* executePaginatedQuery up to its await
executePaginatedQuery(options) ==
    /\ callOpts' = options
    /\ Dispatch(paginatedQueryOptions(options))

IterNext_staleCursor ==
    /\ mode = "paginateAll"
    /\ \/ /\ pc = "start"
          /\ UNCHANGED <<cursor, hasMore>>
          /\ executePaginatedQuery(PaginationOptions(opts, cursor, "next"))
       \/ /\ pc = "yielded"
          /\ hasMore' = pages[Len(pages)].hasNextPage
          /\ cursor' = pages[1].nextCursor
          /\ IF hasMore'
             THEN executePaginatedQuery(PaginationOptions(opts, cursor', "next"))
             ELSE /\ pc' = "done"
                  /\ UNCHANGED <<callOpts, queries, viaMerge, snapshots,
                                 completed, error>>
    /\ UNCHANGED <<coll, mode, opts, merged, pages, clause, splitOut,
                   splitClauses, combinations, iterators>>

IterNext_keepCursor ==
    /\ mode = "paginateAll"
    /\ \/ /\ pc = "start"
          /\ UNCHANGED <<cursor, hasMore>>
          /\ executePaginatedQuery(PaginationOptions(opts, cursor, "next"))
       \/ /\ pc = "yielded"
          /\ hasMore' = pages[Len(pages)].hasNextPage
          /\ cursor' = cursor
          /\ IF hasMore'
             THEN executePaginatedQuery(PaginationOptions(opts, cursor', "next"))
             ELSE /\ pc' = "done"
                  /\ UNCHANGED <<callOpts, queries, viaMerge, snapshots,
                                 completed, error>>
    /\ UNCHANGED <<coll, mode, opts, merged, pages, clause, splitOut,
                   splitClauses, combinations, iterators>>

\* the consumer asks the generator for its first / next page
IterNext ==
    /\ mode = "paginateAll"
    /\ \/ /\ pc = "start"
          /\ UNCHANGED <<cursor, hasMore>>
          /\ executePaginatedQuery(PaginationOptions(opts, cursor, "next"))
       \/ /\ pc = "yielded"
          /\ hasMore' = pages[Len(pages)].hasNextPage
          /\ cursor' = pages[Len(pages)].nextCursor
          /\ IF hasMore'
             THEN executePaginatedQuery(PaginationOptions(opts, cursor', "next"))
             ELSE /\ pc' = "done"
                  /\ UNCHANGED <<callOpts, queries, viaMerge, snapshots,
                                 completed, error>>
    /\ UNCHANGED <<coll, mode, opts, merged, pages, clause, splitOut,
                   splitClauses, combinations, iterators>>

\* the caller's own cursors: none, or one taken from the last result
CallerCursors ==
    {NoDoc} \cup (IF pages = <<>> THEN {}
                  ELSE {pages[Len(pages)].nextCursor, pages[Len(pages)].prevCursor})

\* queryMethods.paginate
Paginate ==
    /\ mode = "paginate"
    /\ pc \in {"start", "returned"}
    /\ Len(pages) < MaxCalls
    /\ \E cur \in CallerCursors, dir \in {"none", "next", "prev"} :
          executePaginatedQuery(PaginationOptions(opts, cur, dir))
    /\ UNCHANGED <<coll, mode, opts, cursor, hasMore, merged, pages,
                   clause, splitOut,
                   splitClauses, combinations, iterators>>

\* queryMethods.paginate, called by a caller that walks forward with the
\* nextCursor of each page and then once backward with a page's prevCursor
PaginateWalk ==
    /\ mode = "walk"
    /\ pc \in {"start", "returned"}
    /\ Len(pages) < MaxWalkCalls
    /\ \/ /\ pages = <<>>
          /\ executePaginatedQuery(PaginationOptions(opts, NoDoc, "none"))
       \/ /\ pages # <<>>
          /\ callOpts.direction # "prev"
          /\ pages[Len(pages)].hasNextPage
          /\ executePaginatedQuery(
                PaginationOptions(opts, pages[Len(pages)].nextCursor, "next"))
       \/ /\ pages # <<>>
          /\ callOpts.direction # "prev"
          /\ pages[Len(pages)].prevCursor # NoDoc
          /\ executePaginatedQuery(
                PaginationOptions(opts, pages[Len(pages)].prevCursor, "prev"))
    /\ UNCHANGED <<coll, mode, opts, cursor, hasMore, merged, pages,
                   clause, splitOut, splitClauses, combinations, iterators>>

\* a direct buildAndExecuteQuery call
Query ==
    /\ mode = "query"
    /\ pc = "start"
    /\ Dispatch(QueryOptions(opts))
    /\ UNCHANGED <<coll, mode, opts, cursor, hasMore, callOpts, merged, pages,
                   clause, splitOut,
                   splitClauses, combinations, iterators>>

\* the backend answers request i
Respond(i) ==
    /\ snapshots[i].status = "pending"
    /\ ~MalformedQuery(queries[i])
    /\ snapshots' = [snapshots EXCEPT ![i] =
          [status |-> "ok",
           docs   |-> LET ids == RunQuery(coll, queries[i])
                      IN  [j \in 1..Len(ids) |-> [id |-> ids[j], q |-> i]]]]
    /\ completed' = Append(completed, i)
    /\ UNCHANGED <<coll, mode, opts, pc, cursor, hasMore, callOpts, queries,
                   viaMerge, merged, pages, error, clause, splitOut,
                   splitClauses, combinations, iterators>>

\* the backend fails request i
FailQuery(i) ==
    /\ snapshots[i].status = "pending"
    /\ snapshots' = [snapshots EXCEPT ![i] = [status |-> "failed", docs |-> <<>>]]
    /\ completed' = Append(completed, i)
    /\ UNCHANGED <<coll, mode, opts, pc, cursor, hasMore, callOpts, queries,
                   viaMerge, merged, pages, error, clause, splitOut,
                   splitClauses, combinations, iterators>>

AllOk == \A j \in 1..Len(snapshots) : snapshots[j].status = "ok"

SomeFailed == \E j \in 1..Len(snapshots) : snapshots[j].status = "failed"

MayResume_settled == \A j \in 1..Len(snapshots) : snapshots[j].status # "pending"

MayResume_firstOk == \A j \in 1..Min(1, Len(snapshots)) : snapshots[j].status = "ok"

\* await Promise.all(...) / await q.get() is fulfilled
MayResume == AllOk

Resume_prefetch ==
    /\ pc = "awaiting"
    /\ MayResume
    /\ IF viaMerge /\ snapshots = <<>>
       THEN /\ error' = "No snapshots returned"
            /\ pc' = "failed"
            /\ UNCHANGED <<merged, pages, snapshots>>
       ELSE /\ merged' = IF viaMerge THEN executeAndMergeQueries(snapshots)
                         ELSE snapshots[1].docs
            /\ error' = error
            /\ IF mode = "query"
               THEN /\ pc' = "returned"
                    /\ pages' = pages
                    /\ snapshots' = snapshots
               ELSE /\ pc' = IF mode = "paginateAll" THEN "yielded" ELSE "returned"
                    /\ pages' = Append(pages, paginationResult(merged', callOpts))
                    /\ snapshots' = IF mode = "paginateAll"
                                    THEN [j \in 1..Len(snapshots) |-> Pending]
                                    ELSE snapshots
    /\ UNCHANGED <<coll, mode, opts, cursor, hasMore, callOpts, queries, viaMerge,
                   clause, splitOut,
                   splitClauses, combinations, completed, iterators>>

Resume_emptyResult ==
    /\ pc = "awaiting"
    /\ MayResume
    /\ merged' = IF viaMerge THEN executeAndMergeQueries(snapshots)
                 ELSE snapshots[1].docs
    /\ error' = error
    /\ IF mode = "query"
       THEN /\ pc' = "returned"
            /\ pages' = pages
       ELSE /\ pc' = IF mode = "paginateAll" THEN "yielded" ELSE "returned"
            /\ pages' = Append(pages, paginationResult(merged', callOpts))
    /\ UNCHANGED <<coll, mode, opts, cursor, hasMore, callOpts, queries, viaMerge,
                   snapshots, clause, splitOut,
                   splitClauses, combinations, completed, iterators>>

\* the continuation after the await, up to the return / yield
Resume ==
    /\ pc = "awaiting"
    /\ MayResume
    /\ IF viaMerge /\ snapshots = <<>>
       THEN /\ error' = "No snapshots returned"
            /\ pc' = "failed"
            /\ UNCHANGED <<merged, pages>>
       ELSE /\ merged' = IF viaMerge THEN executeAndMergeQueries(snapshots)
                         ELSE snapshots[1].docs
            /\ error' = error
            /\ IF mode = "query"
               THEN /\ pc' = "returned"
                    /\ pages' = pages
               ELSE /\ pc' = IF mode = "paginateAll" THEN "yielded" ELSE "returned"
                    /\ pages' = Append(pages, paginationResult(merged', callOpts))
    /\ UNCHANGED <<coll, mode, opts, cursor, hasMore, callOpts, queries, viaMerge,
                   snapshots, clause, splitOut,
                   splitClauses, combinations, completed, iterators>>

Reject_emptyPage ==
    /\ pc = "awaiting"
    /\ SomeFailed
    /\ error' = error
    /\ pc' = IF mode = "paginateAll" THEN "yielded" ELSE "returned"
    /\ pages' = IF mode = "query" THEN pages
                 ELSE Append(pages, paginationResult(<<>>, callOpts))
    /\ UNCHANGED <<coll, mode, opts, cursor, hasMore, callOpts, queries, viaMerge,
                   snapshots, merged, clause, splitOut,
                   splitClauses, combinations, completed, iterators>>

\* the await is rejected: the error propagates to the caller
Reject ==
    /\ pc = "awaiting"
    /\ SomeFailed
    /\ error' = "backend"
    /\ pc' = "failed"
    /\ UNCHANGED <<coll, mode, opts, cursor, hasMore, callOpts, queries, viaMerge,
                   snapshots, merged, pages, clause, splitOut,
                   splitClauses, combinations, completed, iterators>>

Next ==
    \/ IterNext
    \/ Paginate
    \/ PaginateWalk
    \/ Query
    \/ \E i \in 1..Len(snapshots) : Respond(i)
    \/ \E i \in 1..Len(snapshots) : FailQuery(i)
    \/ Resume
    \/ Reject

Spec == Init /\ [][Next]_vars

(***************************************************************************)
(* Specification of two paginateAll iterators over the same query: the     *)
(* consumer creates a second generator while the first is anywhere in its  *)
(* walk, and advances either.  The variables hold the active generator.    *)
(***************************************************************************)
RestartFilters ==
    { Filter(FALSE, <<>>, FALSE, <<>>),
      Filter(FALSE, <<>>, TRUE, << <<StatusIs(0)>>, <<StatusIs(1)>> >>) }

InitRestart ==
    /\ coll \in {c \in SmallColls : c.layout = "distinct"}
    /\ mode = "paginateAll"
    /\ \E f \in RestartFilters, ob \in OrderBys, ps \in 1..MaxPageSize :
          opts = Options(f, ob, 0, ps)
    /\ pc = "start"
    /\ cursor = NoDoc
    /\ hasMore = TRUE
    /\ callOpts = NoCallOpts
    /\ queries = <<>>
    /\ viaMerge = FALSE
    /\ snapshots = <<>>
    /\ merged = <<>>
    /\ pages = <<>>
    /\ error = "none"
    /\ clause = NoClause
    /\ splitOut = <<>>
    /\ splitClauses = <<>>
    /\ combinations = <<>>
    /\ completed = <<>>
    /\ iterators = OneIterator

\* the variables of the active generator become those of frame f
Activate(f) ==
    /\ pc' = f.pc
    /\ cursor' = f.cursor
    /\ hasMore' = f.hasMore
    /\ callOpts' = f.callOpts
    /\ queries' = f.queries
    /\ viaMerge' = f.viaMerge
    /\ snapshots' = f.snapshots
    /\ merged' = f.merged
    /\ pages' = f.pages
    /\ error' = f.error
    /\ completed' = f.completed

StartIterator_sharedLocals ==
    /\ mode = "paginateAll"
    /\ iterators.suspended = NoFrame
    /\ iterators' = [active |-> 2, suspended |-> ActiveFrame,
                     firstHad |-> Len(pages)]
    /\ Activate([NewFrame EXCEPT !.cursor = cursor, !.hasMore = hasMore])
    /\ UNCHANGED <<coll, mode, opts, clause, splitOut, splitClauses, combinations>>

\* queryMethods.paginateAll is invoked again with the same options: a new
\* generator with its own cursor and hasMore
StartIterator ==
    /\ mode = "paginateAll"
    /\ iterators.suspended = NoFrame
    /\ iterators' = [active |-> 2, suspended |-> ActiveFrame,
                     firstHad |-> Len(pages)]
    /\ Activate(NewFrame)
    /\ UNCHANGED <<coll, mode, opts, clause, splitOut, splitClauses, combinations>>

\* the consumer turns to the other generator
SwitchIterator ==
    /\ mode = "paginateAll"
    /\ iterators.suspended # NoFrame
    /\ iterators' = [iterators EXCEPT !.active = 3 - @,
                                      !.suspended = ActiveFrame]
    /\ Activate(iterators.suspended)
    /\ UNCHANGED <<coll, mode, opts, clause, splitOut, splitClauses, combinations>>

NextRestart ==
    \/ IterNext
    \/ \E i \in 1..Len(snapshots) : Respond(i)
    \/ \E i \in 1..Len(snapshots) : FailQuery(i)
    \/ Resume
    \/ Reject
    \/ StartIterator
    \/ SwitchIterator

SpecRestart == InitRestart /\ [][NextRestart]_vars

(***************************************************************************)
(* Specification of two callers of paginate / buildAndExecuteQuery on the  *)
(* same repository and options object: the second caller starts while the  *)
(* first is anywhere in its call, and the backend answers the requests of  *)
(* both in any order.  The variables hold the call that is looked at.      *)
(***************************************************************************)
ConcurrentFilters ==
    { Filter(FALSE, <<>>, FALSE, <<>>),
      Filter(FALSE, <<>>, TRUE,
             << <<Clause("views", ">=", Scalar(1))>>, <<StatusIs(1)>> >>) }

InitConcurrent ==
    /\ coll \in {c \in SmallColls : c.layout = "distinct" /\ c.n = MaxDocs - 1}
    /\ mode \in {"call", "query"}
    /\ \E f \in ConcurrentFilters, ob \in OrderBys, ps \in 1..MaxConcurrentPageSize :
          opts = Options(f, ob, 0, ps)
    /\ pc = "start"
    /\ cursor = NoDoc
    /\ hasMore = TRUE
    /\ callOpts = NoCallOpts
    /\ queries = <<>>
    /\ viaMerge = FALSE
    /\ snapshots = <<>>
    /\ merged = <<>>
    /\ pages = <<>>
    /\ error = "none"
    /\ clause = NoClause
    /\ splitOut = <<>>
    /\ splitClauses = <<>>
    /\ combinations = <<>>
    /\ completed = <<>>
    /\ iterators = OneIterator

\* the cursors a caller may hold from earlier results: none, or any record
AnyCursors == {NoDoc} \cup {[id |-> IdOf(coll, k), q |-> 1] : k \in 1..coll.n}

\* queryMethods.paginate, called once with a cursor the caller holds
PaginateOnce ==
    /\ mode = "call"
    /\ pc = "start"
    /\ \E cur \in AnyCursors, dir \in {"next", "prev"} :
          executePaginatedQuery(PaginationOptions(opts, cur, dir))
    /\ UNCHANGED <<coll, mode, opts, cursor, hasMore, merged, pages,
                   clause, splitOut, splitClauses, combinations, iterators>>

SwitchCall_sharedSnapshots ==
    /\ mode \in {"call", "query"}
    /\ iterators.suspended # NoFrame
    /\ iterators' = [iterators EXCEPT !.active = 3 - @,
                                      !.suspended = ActiveFrame]
    /\ Activate([iterators.suspended EXCEPT
                    !.snapshots = IF Len(snapshots) = Len(@) THEN snapshots ELSE @])
    /\ UNCHANGED <<coll, mode, opts, clause, splitOut, splitClauses, combinations>>

\* a second caller enters paginate / buildAndExecuteQuery: an invocation
\* with its own parameters and locals
StartCall ==
    /\ mode \in {"call", "query"}
    /\ iterators.suspended = NoFrame
    /\ iterators' = [active |-> 2, suspended |-> ActiveFrame,
                     firstHad |-> Len(pages)]
    /\ Activate(NewFrame)
    /\ UNCHANGED <<coll, mode, opts, clause, splitOut, splitClauses, combinations>>

\* the other caller's invocation is the one that runs next
SwitchCall ==
    /\ mode \in {"call", "query"}
    /\ iterators.suspended # NoFrame
    /\ iterators' = [iterators EXCEPT !.active = 3 - @,
                                      !.suspended = ActiveFrame]
    /\ Activate(iterators.suspended)
    /\ UNCHANGED <<coll, mode, opts, clause, splitOut, splitClauses, combinations>>

NextConcurrent ==
    \/ PaginateOnce
    \/ Query
    \/ \E i \in 1..Len(snapshots) : Respond(i)
    \/ Resume
    \/ StartCall
    \/ SwitchCall

SpecConcurrent == InitConcurrent /\ [][NextConcurrent]_vars

(***************************************************************************)
(* Specification of a complete paginateAll walk: the consumer keeps asking *)
(* for the next page, the backend answers every request, and the           *)
(* continuation of an await runs once its promise is fulfilled.            *)
(***************************************************************************)
\* filters of one query, of several queries, and of overlapping OR groups
FairWalkFilters ==
    { Filter(FALSE, <<>>, FALSE, <<>>),
      Filter(TRUE, <<StatusIs(1)>>, FALSE, <<>>),
      Filter(TRUE, <<IdIn(MaxOperandLen, "desc")>>, FALSE, <<>>),
      Filter(FALSE, <<>>, TRUE,
             << <<Clause("views", ">=", Scalar(1))>>, <<StatusIs(1)>> >>),
      Filter(FALSE, <<>>, TRUE,
             << <<IdIn(SplitThreshold + 1, "asc")>>, <<StatusIs(0)>> >>) }

InitFairWalk ==
    /\ coll \in SmallColls
    /\ mode = "paginateAll"
    /\ \E f \in FairWalkFilters, ob \in OrderBys, ps \in 1..MaxPageSize,
          off \in (IF coll.layout = "distinct" THEN 0..1 ELSE {0}) :
          opts = Options(f, ob, off, ps)
    /\ pc = "start"
    /\ cursor = NoDoc
    /\ hasMore = TRUE
    /\ callOpts = NoCallOpts
    /\ queries = <<>>
    /\ viaMerge = FALSE
    /\ snapshots = <<>>
    /\ merged = <<>>
    /\ pages = <<>>
    /\ error = "none"
    /\ clause = NoClause
    /\ splitOut = <<>>
    /\ splitClauses = <<>>
    /\ combinations = <<>>
    /\ completed = <<>>
    /\ iterators = OneIterator

NextFairWalk ==
    \/ IterNext
    \/ \E i \in 1..Len(snapshots) : Respond(i)
    \/ Resume

\* for await keeps calling next(); every get() is answered; a fulfilled
\* await is resumed
FairWalk ==
    /\ WF_vars(IterNext)
    /\ WF_vars(\E i \in 1..Len(snapshots) : Respond(i))
    /\ WF_vars(Resume)

SpecFairWalk == InitFairWalk /\ [][NextFairWalk]_vars /\ FairWalk

(***************************************************************************)
(* Specification of the pure function splitWhereClause                     *)
(***************************************************************************)
SplitOperators == {"==", "in", "array-contains-any", "not-in", "array-contains"}

SplitInputs ==
    {Clause(f, o, Array(Operand(n, pat))) :
        f \in {"docId", "tags"}, o \in SplitOperators,
        n \in 0..MaxSplitLen, pat \in OperandPatterns}
    \cup {Clause(f, o, Scalar(v)) :
        f \in {"docId", "tags"}, o \in SplitOperators, v \in 1..2}

InitSplit ==
    /\ coll = [n |-> 0, stride |-> 1, layout |-> "distinct"]
    /\ mode = "split"
    /\ opts = Options(Filter(FALSE, <<>>, FALSE, <<>>), <<>>, 0, 1)
    /\ pc = "start"
    /\ cursor = NoDoc
    /\ hasMore = TRUE
    /\ callOpts = NoCallOpts
    /\ queries = <<>>
    /\ viaMerge = FALSE
    /\ snapshots = <<>>
    /\ merged = <<>>
    /\ pages = <<>>
    /\ error = "none"
    /\ clause \in SplitInputs
    /\ splitOut = <<>>
    /\ splitClauses = <<>>
    /\ combinations = <<>>
    /\ completed = <<>>
    /\ iterators = OneIterator

Split ==
    /\ mode = "split"
    /\ pc = "start"
    /\ splitOut' = splitWhereClause(clause)
    /\ pc' = "done"
    /\ UNCHANGED <<coll, mode, opts, cursor, hasMore, callOpts, queries, viaMerge,
                   snapshots, merged, pages, error, clause,
                   splitClauses, combinations, completed, iterators>>

NextSplit == Split

SpecSplit == InitSplit /\ [][NextSplit]_vars

SplitDone == mode = "split" /\ pc = "done"

Oversized(c) ==
    /\ c.operator \in {"in", "array-contains-any"}
    /\ c.value.isArray
    /\ Len(c.value.items) > 30

\* C9: an 'in' / 'array-contains-any' predicate with n > 30 operands is split
\* into exactly ceil(n/30) predicates with the same field and operator, whose
\* chunks have 1..30 operands each and concatenate, in output order, to the
\* original operand sequence.
C9_SplittingCorrect ==
    (SplitDone /\ Oversized(clause)) =>
        /\ Len(splitOut) = CeilDiv(Len(clause.value.items), 30)
        /\ \A k \in 1..Len(splitOut) :
              /\ splitOut[k].field = clause.field
              /\ splitOut[k].operator = clause.operator
              /\ splitOut[k].value.isArray
              /\ Len(splitOut[k].value.items) \in 1..30
        /\ Flatten([k \in 1..Len(splitOut) |-> splitOut[k].value.items])
              = clause.value.items

\* an operand of 91 distinct values has been split into four chunks
C9_Witness ==
    /\ SplitDone
    /\ clause.operator = "array-contains-any"
    /\ clause.value.items = Operand(91, "desc")
    /\ Len(splitOut) = 4
    /\ Len(splitOut[4].value.items) = 1

\* C10: splitWhereClause returns the one-element list [predicate] exactly
\* when the operator is not 'in' / 'array-contains-any' or the operand has at
\* most 30 elements; 30 operands are not split, 31 are.
C10_NoOpBelowThreshold ==
    SplitDone =>
        /\ (splitOut = <<clause>>) <=> ~Oversized(clause)
        /\ (Len(splitOut) = 1) <=> ~Oversized(clause)

\* an 'in' of exactly 30 operands came back as the single input predicate
C10_Witness ==
    /\ SplitDone
    /\ clause.operator = "in"
    /\ clause.value.isArray
    /\ Len(clause.value.items) = 30
    /\ splitOut = <<clause>>

(***************************************************************************)
(* Specification of the expansion of one AND group:                        *)
(*   splitClauses = where.map(splitWhereClause)                            *)
(*   combinations = cartesianProduct(splitClauses)                         *)
(***************************************************************************)
\* the predicates an AND group is drawn from: unsplit ones, and oversized
\* ones of two and three chunks, one of them with a repeating operand list
ExpandClauses ==
    { StatusIs(1),
      IdIn(SplitThreshold, "asc"),
      IdIn(SplitThreshold + 1, "asc"),
      TagsAny(MaxOperandLen, "desc"),
      IdIn(2 * ChunkSize + 1, "rep") }

ExpandGroups == UNION {[1..k -> ExpandClauses] : k \in 0..MaxGroupLen}

InitExpand ==
    /\ coll = [n |-> 0, stride |-> 1, layout |-> "distinct"]
    /\ mode = "expand"
    /\ \E g \in ExpandGroups :
          opts = Options(Filter(TRUE, g, FALSE, <<>>), <<>>, 0, 1)
    /\ pc = "start"
    /\ cursor = NoDoc
    /\ hasMore = TRUE
    /\ callOpts = NoCallOpts
    /\ queries = <<>>
    /\ viaMerge = FALSE
    /\ snapshots = <<>>
    /\ merged = <<>>
    /\ pages = <<>>
    /\ error = "none"
    /\ clause = NoClause
    /\ splitOut = <<>>
    /\ splitClauses = <<>>
    /\ combinations = <<>>
    /\ completed = <<>>
    /\ iterators = OneIterator

Expand ==
    /\ mode = "expand"
    /\ pc = "start"
    /\ splitClauses' = [j \in 1..Len(opts.where) |-> splitWhereClause(opts.where[j])]
    /\ combinations' = cartesianProduct(splitClauses')
    /\ pc' = "done"
    /\ UNCHANGED <<coll, mode, opts, cursor, hasMore, callOpts, queries, viaMerge,
                   snapshots, merged, pages, error, clause, splitOut,
                   completed, iterators>>

NextExpand == Expand

SpecExpand == InitExpand /\ [][NextExpand]_vars

ExpandDone == mode = "expand" /\ pc = "done"

RECURSIVE ProductOfLens(_)
ProductOfLens(ss) ==
    IF ss = <<>> THEN 1 ELSE Len(Head(ss)) * ProductOfLens(Tail(ss))

\* the assignments of one chunk index to every predicate of the group
Assignments ==
    {a \in [1..Len(splitClauses) ->
                UNION {1..Len(splitClauses[i]) : i \in 1..Len(splitClauses)}] :
        \A i \in 1..Len(splitClauses) : a[i] <= Len(splitClauses[i])}

\* the i-th split is the split of the i-th predicate; m_i = 1 when unsplit
SplitsOfGroup ==
    /\ Len(splitClauses) = Len(opts.where)
    /\ \A i \in 1..Len(splitClauses) :
          /\ splitClauses[i] = splitWhereClause(opts.where[i])
          /\ ~Oversized(opts.where[i]) => splitClauses[i] = <<opts.where[i]>>

CompleteExpansion ==
    /\ Len(combinations) = ProductOfLens(splitClauses)
    /\ \A r \in 1..Len(combinations) :
          /\ Len(combinations[r]) = Len(splitClauses)
          /\ \A i \in 1..Len(splitClauses) :
                InItems(combinations[r][i], splitClauses[i])
    /\ \A a \in Assignments :
          \E r \in 1..Len(combinations) :
             \A i \in 1..Len(splitClauses) :
                combinations[r][i] = splitClauses[i][a[i]]

PairwiseDifferent(s) == \A a, b \in 1..Len(s) : s[a] = s[b] => a = b

\* C11 (as claimed): the expansion of an AND group has exactly m1 * ... * mk
\* combinations, all pairwise different, each of length k and holding at
\* position i one chunk-predicate of the i-th predicate.
C11_CombinationsAllDifferent ==
    ExpandDone =>
        /\ SplitsOfGroup
        /\ CompleteExpansion
        /\ PairwiseDifferent(combinations)

\* C11 (amended): the expansion of an AND group has exactly m1 * ... * mk
\* combinations, each of length k and holding at position i one
\* chunk-predicate of the i-th predicate, and every assignment of one chunk
\* per predicate is among them; the combinations are pairwise different when
\* the chunks of every predicate are pairwise different (as they are for an
\* operand list without repeated values).
C11_CombinationCompleteness ==
    ExpandDone =>
        /\ SplitsOfGroup
        /\ CompleteExpansion
        /\ (\A i \in 1..Len(splitClauses) : PairwiseDifferent(splitClauses[i]))
              => PairwiseDifferent(combinations)

\* a group of three predicates split into 1, 2 and 3 chunks has six
\* combinations, in order, first predicate first
C11_Witness ==
    /\ ExpandDone
    /\ Len(opts.where) = 3
    /\ Len(splitClauses[1]) = 1 /\ Len(splitClauses[2]) = 2
    /\ Len(splitClauses[3]) = 3
    /\ Len(combinations) = 6
    /\ PairwiseDifferent(combinations)
    /\ combinations[6] = <<splitClauses[1][1], splitClauses[2][2], splitClauses[3][3]>>

(***************************************************************************)
(* Reference semantics used to state the properties: the original filter   *)
(* evaluated natively, without cardinality limit, and globally ordered.    *)
(***************************************************************************)
ResolveOrderBy(ob) ==
    [j \in 1..Len(ob) |->
        [field |-> ob[j].field,
         direction |-> IF ob[j].direction = "desc" THEN "desc" ELSE "asc"]]

MatchesFilter(c, id, o) ==
    IF o.hasOrWhere
    THEN \E g \in 1..Len(o.orWhere) : MatchesAll(c, id, o.orWhere[g])
    ELSE IF o.hasWhere THEN MatchesAll(c, id, o.where) ELSE TRUE

MatchSeq(c, o) == SelectSeq(DocIds(c), LAMBDA id : MatchesFilter(c, id, o))

FullSorted(c, o) == Sorted(c, MatchSeq(c, o), ResolveOrderBy(o.orderBy))

Range(s) == {s[j] : j \in 1..Len(s)}

Ids(docs) == {docs[j].id : j \in 1..Len(docs)}

\* the filter is one AND group or an OR of AND groups, and nothing is skipped
PlainFilter(o) == o.offset = 0 /\ ~(o.hasWhere /\ o.hasOrWhere)

AllData == Flatten([i \in 1..Len(pages) |-> pages[i].data])

NoRepeatAcrossPages ==
    \A i, j \in 1..Len(pages) :
        i < j => Range(pages[i].data) \cap Range(pages[j].data) = {}

LastPage == pages[Len(pages)]

\* the records the reference semantics puts in the range of a call
ReferenceRange(c, po) ==
    LET full == FullSorted(c, po)
        ob   == ResolveOrderBy(po.orderBy)
    IN  IF po.cursor = NoDoc THEN full
        ELSE IF po.direction = "prev"
        THEN SelectSeq(full, LAMBDA id : Before(c, id, po.cursor.id, ob))
        ELSE SelectSeq(full, LAMBDA id : Before(c, po.cursor.id, id, ob))

\* C1: the pages yielded by paginateAll, for any filter, repeat no record
\* across pages, and their data concatenated in yield order is the full set
\* of matching records sorted by the Order Specification.
C1_PagesPartitionSortedMatches ==
    (mode = "paginateAll" /\ PlainFilter(opts)) =>
        /\ NoRepeatAcrossPages
        /\ pc = "done" => AllData = FullSorted(coll, opts)

C3_PageInGlobalOrder ==
    (/\ mode \in {"paginate", "paginateAll"}
     /\ pc \in {"returned", "yielded"}
     /\ PlainFilter(opts)
     /\ Len(queries) >= 2
     /\ callOpts.direction # "prev") =>
        LastPage.data = Take(ReferenceRange(coll, callOpts), callOpts.pageSize)

\* C5: over exactly k*P records the k-th page has hasNextPage = FALSE; over
\* k*P + 1 records the k-th page has hasNextPage = TRUE and is followed by a
\* (k+1)-th page of one record with hasNextPage = FALSE.
C5_HasNextPageBoundary ==
    (mode = "paginateAll" /\ PlainFilter(opts)) =>
        LET N == Len(FullSorted(coll, opts))
            P == opts.pageSize
        IN  \A k \in 1..Len(pages) :
              /\ N = k * P => ~pages[k].hasNextPage
              /\ N = k * P + 1 =>
                    /\ pages[k].hasNextPage
                    /\ Len(pages) > k =>
                          /\ Len(pages[k + 1].data) = 1
                          /\ ~pages[k + 1].hasNextPage

\* C6: for a filter that is one AND group or an OR of AND groups, and no
\* result cap, buildAndExecuteQuery returns exactly the documents matching the
\* unsplit filter; an 'in' over n > 30 distinct existing ids returns n records.
C6_UnionEqualsUnsplitFilter ==
    (mode = "query" /\ pc = "returned" /\ PlainFilter(opts)) =>
        /\ Ids(merged) = Range(MatchSeq(coll, opts))
        /\ Len(merged) = Len(MatchSeq(coll, opts))

\* an 'in' over the 35 ids of a 35-document collection returned 35 records
C6_Witness ==
    /\ mode = "query" /\ pc = "returned"
    /\ coll = BigColl
    /\ Len(queries) = 2
    /\ Len(opts.where[1].value.items) = coll.n
    /\ coll.n > 30
    /\ Cardinality(Ids(merged)) = coll.n

\* C7: the merged result holds each distinct document identity exactly once,
\* however many queries returned it, and its size is the number of distinct
\* identities over all query results.
C7_MergeIdempotent ==
    (pc \in {"returned", "yielded"} /\ viaMerge) =>
        /\ \A a, b \in 1..Len(merged) : merged[a].id = merged[b].id => a = b
        /\ Ids(merged) = UNION {Ids(snapshots[j].docs) : j \in 1..Len(snapshots)}
        /\ Len(merged) =
              Cardinality(UNION {Ids(snapshots[j].docs) : j \in 1..Len(snapshots)})

\* two queries of one call returned the same document and the merge is done
C7_Witness ==
    /\ pc \in {"returned", "yielded"} /\ viaMerge
    /\ \E i, j \in 1..Len(snapshots) :
          i # j /\ Ids(snapshots[i].docs) \cap Ids(snapshots[j].docs) # {}

\* C8: if any primitive query of a call fails, the call fails as a whole: no
\* result is returned or yielded for it, whatever the other queries do.
C8_AllOrNothing ==
    /\ SomeFailed => pc \in {"awaiting", "failed"}
    /\ pc \in {"returned", "yielded", "done"} => AllOk
    /\ pc = "failed" /\ SomeFailed => error = "backend"

\* a call of three queries failed as a whole although two of them succeeded
C8_Witness ==
    /\ pc = "failed" /\ error = "backend"
    /\ Len(snapshots) = 3
    /\ \E i, j, k \in 1..3 :
          /\ i < j
          /\ snapshots[i].status = "ok" /\ snapshots[i].docs # <<>>
          /\ snapshots[j].status = "ok"
          /\ snapshots[k].status = "failed"

NoFilter(o) == ~o.hasWhere /\ ~o.hasOrWhere /\ o.offset = 0

DistinctSortKeys(c, ob) ==
    /\ ob # <<>>
    /\ \A a, b \in Range(DocIds(c)) :
          a # b => CompareBy(c, a, b, ResolveOrderBy(ob)) # 0

\* paginate(pageSize P, orderBy O) has returned page 1 and then
\* paginate(pageSize P, orderBy O, cursor = page1.nextCursor) has returned
TwoCallsThreaded ==
    /\ mode = "paginate" /\ pc = "returned" /\ Len(pages) = 2
    /\ NoFilter(opts)
    /\ DistinctSortKeys(coll, opts.orderBy)
    /\ ~pages[1].hasPrevPage
    /\ callOpts.cursor = pages[1].nextCursor
    /\ callOpts.direction # "prev"

NextRecords ==
    LET full == FullSorted(coll, opts)
        P    == opts.pageSize
    IN  SubSeq(full, P + 1, Min(2 * P, Len(full)))

\* C4 (as claimed): the second call returns exactly the next
\* min(P, remaining) records after page 1's last record and shares no
\* document identity with page 1.
C4_CursorContinuityAlways ==
    TwoCallsThreaded =>
        /\ pages[2].data = NextRecords
        /\ Range(pages[1].data) \cap Range(pages[2].data) = {}

\* C4 (amended): when page 1 reports hasNextPage = TRUE (more than P records),
\* the second call returns exactly the next min(P, remaining) records after
\* page 1's last record and shares no document identity with page 1; when
\* page 1 holds every record its nextCursor is undefined and the second call
\* returns page 1 again.
C4_CursorContinuity ==
    TwoCallsThreaded =>
        IF pages[1].hasNextPage
        THEN /\ pages[2].data = NextRecords
             /\ Range(pages[1].data) \cap Range(pages[2].data) = {}
        ELSE /\ pages[1].nextCursor = NoDoc
             /\ pages[2].data = pages[1].data

\* five records, page size two: the second call returned records three and four
C4_Witness ==
    /\ TwoCallsThreaded
    /\ coll.n = 5 /\ opts.pageSize = 2
    /\ pages[1].hasNextPage
    /\ pages[2].data = SubSeq(FullSorted(coll, opts), 3, 4)
    /\ pages[2].hasNextPage

\* For a filter that executes as one primitive query the walk is complete,
\* disjoint, globally ordered and has the hasNextPage boundary of C5: the
\* violations of C1, C3 and C5 need two or more merged queries.
SinglePrimitiveWalk ==
    (mode = "paginateAll" /\ PlainFilter(opts) /\ Len(queries) = 1
       /\ pc \in {"yielded", "done"}) =>
        LET full == FullSorted(coll, opts)
            N == Len(full)
            P == opts.pageSize
        IN  /\ NoRepeatAcrossPages
            /\ AllData = Take(full, Len(AllData))
            /\ pc = "done" => AllData = full
            /\ \A k \in 1..Len(pages) :
                  /\ N = k * P => ~pages[k].hasNextPage
                  /\ N = k * P + 1 =>
                        /\ pages[k].hasNextPage
                        /\ Len(pages) > k =>
                              /\ Len(pages[k + 1].data) = 1
                              /\ ~pages[k + 1].hasNextPage

\* a paginate call (direct, or made by the iterator) has just returned
CallReturned ==
    /\ mode \in {"paginate", "walk", "paginateAll"}
    /\ pc \in {"returned", "yielded"}

\* C12: if the merged result of a paginate call has more than P records then
\* hasNextPage = TRUE, data is exactly its first P records and nextCursor is
\* the P-th record; otherwise hasNextPage = FALSE, data is all records and
\* nextCursor is undefined.  The pageSize field is the number of records in
\* data and is at most P.
C12_PageShape ==
    CallReturned =>
        LET P == callOpts.pageSize
        IN  /\ P >= 1
            /\ IF Len(merged) > P
               THEN /\ LastPage.hasNextPage
                    /\ LastPage.data = [j \in 1..P |-> merged[j].id]
                    /\ LastPage.nextCursor = merged[P]
               ELSE /\ ~LastPage.hasNextPage
                    /\ LastPage.data = [j \in 1..Len(merged) |-> merged[j].id]
                    /\ LastPage.nextCursor = NoDoc
            /\ LastPage.pageSize = Len(LastPage.data)
            /\ LastPage.pageSize <= P

\* a call whose merged result holds P + 2 records, and a call whose merged
\* result holds exactly P, have returned
C12_Witness ==
    /\ CallReturned
    /\ \/ /\ Len(merged) = callOpts.pageSize + 2
          /\ LastPage.hasNextPage
          /\ LastPage.pageSize = callOpts.pageSize
       \/ /\ Len(merged) = callOpts.pageSize
          /\ callOpts.pageSize = 3
          /\ ~LastPage.hasNextPage

StartsCall == pc # "awaiting" /\ pc' = "awaiting"

\* one advance of the sequence, as a step of the generator
AdvanceProtocol ==
    mode = "paginateAll" =>
        /\ StartsCall =>
              /\ pc \in {"start", "yielded"}
              /\ callOpts' = PaginationOptions(opts,
                                IF pc = "start" THEN NoDoc ELSE LastPage.nextCursor,
                                "next")
              /\ pc = "yielded" => LastPage.hasNextPage
              /\ pages' = pages
        /\ pc = "yielded" /\ pc' # pc =>
              /\ pc' = IF LastPage.hasNextPage THEN "awaiting" ELSE "done"
              /\ pages' = pages
        /\ pc = "awaiting" => callOpts' = callOpts /\ queries' = queries
        /\ pages' # pages =>
              /\ pc = "awaiting" /\ pc' = "yielded"
              /\ Len(pages') = Len(pages) + 1
              /\ SubSeq(pages', 1, Len(pages)) = pages
        /\ pc = "done" => pc' = "done" /\ pages' = pages

\* C14: each advance of the paginateAll sequence performs exactly one paginate
\* call with direction 'next'; the first uses no cursor and every later one the
\* nextCursor of the page yielded immediately before; the sequence ends the
\* first time a yielded page has hasNextPage = FALSE, and that page is yielded.
C14_IteratorProtocol ==
    /\ [][AdvanceProtocol]_vars
    /\ [](mode = "paginateAll" =>
            /\ \A i \in 1..(Len(pages) - 1) : pages[i].hasNextPage
            /\ pc = "done" => pages # <<>> /\ ~LastPage.hasNextPage)

\* a walk of three pages has ended; its third call used the second page's
\* nextCursor, which is not the first page's
C14_Witness ==
    /\ mode = "paginateAll" /\ pc = "done"
    /\ Len(pages) = 3
    /\ callOpts.cursor = pages[2].nextCursor
    /\ pages[2].nextCursor # pages[1].nextCursor
    /\ callOpts.direction = "next"
    /\ pages[2].hasNextPage /\ ~pages[3].hasNextPage

\* C15: when the number of distinct documents matching the filter (one group,
\* an OR of groups, or a split oversized 'in') is at most pageSize, a paginate
\* call without cursor returns all of them in data, each once, with
\* hasNextPage = FALSE.
C15_SmallResultInOnePage ==
    (/\ CallReturned
     /\ callOpts.cursor = NoDoc
     /\ PlainFilter(opts)
     /\ Len(MatchSeq(coll, opts)) <= callOpts.pageSize) =>
        /\ Range(LastPage.data) = Range(MatchSeq(coll, opts))
        /\ Len(LastPage.data) = Len(MatchSeq(coll, opts))
        /\ ~LastPage.hasNextPage

\* an OR of two groups that match one and two documents, with page size 3,
\* returned the three documents in one page
C15_Witness ==
    /\ CallReturned
    /\ callOpts.cursor = NoDoc
    /\ opts.hasOrWhere /\ ~opts.hasWhere /\ opts.offset = 0
    /\ Len(queries) = 2
    /\ Len(snapshots[1].docs) = 1 /\ Len(snapshots[2].docs) = 2
    /\ callOpts.pageSize = 3
    /\ Len(LastPage.data) = 3
    /\ ~LastPage.hasNextPage

\* the results of the queries of the call, in query-list order and, within one
\* query, in that query's result order
AllResults == Flatten([j \in 1..Len(snapshots) |-> snapshots[j].docs])

\* the position in AllResults of the r-th merged record
ScanIndex(r) == CHOOSE k \in 1..Len(AllResults) : AllResults[k] = merged[r]

\* C16: the merged result lists the documents in the order of their first
\* occurrence when scanning the query results in query-list order and, within
\* one query, in result order; for a duplicated identity the record kept is
\* the one of the earliest query.  The order in which the concurrently
\* dispatched queries complete does not matter.
C16_FirstSeenMerge ==
    (pc \in {"returned", "yielded"} /\ viaMerge) =>
        /\ Ids(merged) = Ids(AllResults)
        /\ \A r \in 1..Len(merged) :
              /\ \E k \in 1..Len(AllResults) : AllResults[k] = merged[r]
              /\ \A k \in 1..(ScanIndex(r) - 1) : AllResults[k].id # merged[r].id
              /\ \A j \in 1..Len(snapshots) :
                    merged[r].id \in Ids(snapshots[j].docs) => merged[r].q <= j
        /\ \A r1, r2 \in 1..Len(merged) :
              r1 < r2 => ScanIndex(r1) < ScanIndex(r2)

\* the second query of a call completed before the first, both returned a
\* common document, and the merged result starts with the first query's records
C16_Witness ==
    /\ pc \in {"returned", "yielded"} /\ viaMerge
    /\ Len(completed) >= 2 /\ completed[1] = 2
    /\ Ids(snapshots[1].docs) \cap Ids(snapshots[2].docs) # {}
    /\ Ids(snapshots[2].docs) \ Ids(snapshots[1].docs) # {}
    /\ merged[1] = snapshots[1].docs[1]

\* C17: the prevCursor of a page requested without a cursor (a first page) is
\* undefined.
C17_NoPrevCursorOnFirstPage ==
    (CallReturned /\ callOpts.cursor = NoDoc) => LastPage.prevCursor = NoDoc

\* the caller walked forward to page k >= 2 without filter, on records of
\* distinct sort keys, and then called paginate with that page's prevCursor
\* and direction 'prev'
SteppedBackFrom(k) ==
    /\ mode = "walk" /\ pc = "returned"
    /\ NoFilter(opts) /\ DistinctSortKeys(coll, opts.orderBy)
    /\ Len(pages) = k + 1
    /\ callOpts.direction = "prev"
    /\ callOpts.cursor = pages[k].prevCursor

\* C18: paginate with cursor = prevCursor of page k (k >= 2) and direction
\* 'prev' returns exactly the records of page k-1.
C18_PrevCursorGoesBack ==
    \A k \in 2..(MaxWalkCalls - 1) :
        SteppedBackFrom(k) => LastPage.data = pages[k - 1].data

\* the filter of the call holds a predicate with an empty operand list
MalformedFilter(o) ==
    IF o.hasOrWhere
    THEN \E g \in 1..Len(o.orWhere) :
            \E j \in 1..Len(o.orWhere[g]) : Malformed(o.orWhere[g][j])
    ELSE o.hasWhere /\ \E j \in 1..Len(o.where) : Malformed(o.where[j])

\* C19: a filter with a malformed predicate (an 'in' or 'array-contains-any'
\* with an empty operand list) is rejected before any backend query is
\* executed: no request is ever issued for it, and no result is returned.
C19_MalformedRejectedBeforeBackend ==
    (mode \in {"paginateAll", "paginate", "walk", "query"} /\ MalformedFilter(opts)) =>
        /\ queries = <<>> /\ snapshots = <<>>
        /\ pc \in {"start", "failed"}

\* the pages of the first and of the second iterator
PagesOf(id) ==
    IF iterators.active = id THEN pages ELSE iterators.suspended.pages

FrameOf(id) == IF iterators.active = id THEN ActiveFrame ELSE iterators.suspended

TwoIterators == mode = "paginateAll" /\ iterators.suspended # NoFrame

\* C20: each invocation of paginateAll starts a fresh walk from page one with
\* no cursor, however far an earlier or still active iterator over the same
\* query has advanced; on a static collection two iterators created with the
\* same options yield the same sequence of pages.
C20_FreshWalkPerIterator ==
    TwoIterators =>
        /\ \A id \in 1..2 :
              /\ FrameOf(id).pc = "start" =>
                    FrameOf(id).cursor = NoDoc /\ FrameOf(id).hasMore
              /\ (FrameOf(id).pc = "awaiting" /\ PagesOf(id) = <<>>) =>
                    FrameOf(id).callOpts.cursor = NoDoc
        /\ \A i \in 1..Min(Len(PagesOf(1)), Len(PagesOf(2))) :
              PagesOf(1)[i] = PagesOf(2)[i]
        /\ (FrameOf(1).pc = "done" /\ FrameOf(2).pc = "done") =>
              PagesOf(1) = PagesOf(2)

\* the second iterator was created when the first had yielded two pages, and
\* both have ended after the same three pages
C20_Witness ==
    /\ TwoIterators
    /\ iterators.firstHad = 2
    /\ FrameOf(1).pc = "done" /\ FrameOf(2).pc = "done"
    /\ Len(PagesOf(2)) = 3
    /\ PagesOf(1) = PagesOf(2)

\* a step of a paginateAll walk one of whose requests has failed
FailureProtocol ==
    (mode = "paginateAll" /\ (SomeFailed \/ pc = "failed")) =>
        /\ pc' \in {"awaiting", "failed"}
        /\ pc = "failed" => pc' = "failed" /\ error' = error
        /\ pages' = pages
        /\ queries' = queries
        /\ Len(snapshots') = Len(snapshots)
        /\ \A j \in 1..Len(snapshots) :
              snapshots[j].status # "pending" => snapshots'[j] = snapshots[j]

\* C21: if the backend request for some page of a paginateAll walk fails, the
\* consumer's advance for that page fails with that error; no page (in
\* particular no empty page) is yielded for that step, the failed request is
\* not issued again, and the pages already yielded are unaffected.
C21_IteratorErrorPropagation ==
    /\ [][FailureProtocol]_vars
    /\ [](mode = "paginateAll" =>
            /\ SomeFailed => pc \in {"awaiting", "failed"}
            /\ (pc = "failed" /\ SomeFailed) =>
                  /\ error = "backend"
                  /\ \A i \in 1..Len(pages) : pages[i].hasNextPage
                  /\ callOpts.cursor =
                        IF pages = <<>> THEN NoDoc ELSE LastPage.nextCursor)

\* the walk failed on its third page after two pages were yielded
C21_Witness ==
    /\ mode = "paginateAll"
    /\ pc = "failed" /\ error = "backend" /\ SomeFailed
    /\ Len(pages) = 2
    /\ pages[1].data # <<>> /\ pages[2].data # <<>>
    /\ callOpts.cursor = pages[2].nextCursor

\* the queries of a paginate call (direct, or made by the iterator) are built
PaginateCallBuilt ==
    /\ mode \in {"paginate", "walk", "paginateAll"}
    /\ queries # <<>>

\* C22: a supplied cursor becomes a startAfter bound when direction is 'next'
\* or omitted and an endBefore bound when direction is 'prev'; without a
\* cursor no bound is added, whatever the direction.
C22_CursorInjection ==
    PaginateCallBuilt =>
        \A j \in 1..Len(queries) :
            IF callOpts.cursor = NoDoc
            THEN queries[j].startAfter = NoDoc /\ queries[j].endBefore = NoDoc
            ELSE IF callOpts.direction = "prev"
            THEN /\ queries[j].endBefore = callOpts.cursor
                 /\ queries[j].startAfter = NoDoc
            ELSE /\ queries[j].startAfter = callOpts.cursor
                 /\ queries[j].endBefore = NoDoc

\* a call with a cursor and direction 'prev' built two queries that end
\* strictly before the cursor
C22_Witness ==
    /\ PaginateCallBuilt
    /\ callOpts.cursor # NoDoc /\ callOpts.direction = "prev"
    /\ Len(queries) = 2
    /\ queries[2].endBefore = callOpts.cursor
    /\ queries[2].startAfter = NoDoc

\* C23: every primitive query derived from one paginate call carries the same
\* orderBy list, the same cap pageSize + 1, the same offset and the same
\* cursor bound; the queries differ only in their predicate chain, so the cap
\* limits each query separately and the merged result of q queries holds up to
\* q * (pageSize + 1) records.
C23_SharedQueryOptions ==
    PaginateCallBuilt =>
        /\ \A j \in 1..Len(queries) :
              /\ queries[j].orderBy = ResolveOrderBy(callOpts.orderBy)
              /\ queries[j].limit = callOpts.pageSize + 1
              /\ queries[j].offset = callOpts.offset
              /\ queries[j].startAfter = queries[1].startAfter
              /\ queries[j].endBefore = queries[1].endBefore
        /\ \A j \in 1..Len(snapshots) :
              Len(snapshots[j].docs) <= callOpts.pageSize + 1
        /\ pc \in {"returned", "yielded"} =>
              Len(merged) <= Len(queries) * (callOpts.pageSize + 1)

\* two queries of one call, with different predicate chains, returned
\* pageSize + 1 records each and the merged result holds more than
\* 2 * (pageSize + 1) records
C23_Witness ==
    /\ PaginateCallBuilt
    /\ pc \in {"returned", "yielded"}
    /\ Len(queries) = 3
    /\ queries[1].where # queries[2].where
    /\ Len(snapshots[1].docs) = callOpts.pageSize + 1
    /\ Len(snapshots[2].docs) = callOpts.pageSize + 1
    /\ Len(merged) > 2 * (callOpts.pageSize + 1)

(***************************************************************************)
(* C24: join barrier.  Every query of a call has its request out as soon   *)
(* as the call waits (one request per query, the answered ones being       *)
(* exactly those that completed), and a call has returned or yielded a     *)
(* result only when every one of its requests was answered successfully:   *)
(* none is outstanding and none failed.                                    *)
(***************************************************************************)
C24_JoinBarrier ==
    /\ Len(snapshots) = Len(queries)
    /\ pc = "awaiting" =>
          /\ {j \in 1..Len(snapshots) : snapshots[j].status # "pending"}
                = Range(completed)
          /\ Len(completed) <= Len(snapshots)
    /\ pc \in {"returned", "yielded"} =>
          /\ AllOk
          /\ Len(completed) = Len(queries)
          /\ Range(completed) = 1..Len(queries)

\* a merged call of three queries returned after they completed in another
\* order than they were dispatched
C24_Witness ==
    /\ pc \in {"returned", "yielded"}
    /\ viaMerge
    /\ Len(queries) = 3
    /\ completed[1] = 3
    /\ AllOk
    /\ merged # <<>>

\* the cursor a walk uses to fetch its page k
PageCursor(k) == IF k = 1 THEN NoDoc ELSE pages[k - 1].nextCursor

\* the page whose requests are the ones present: the next one while the
\* generator waits or has failed, the last one yielded otherwise
FetchedPage == IF pc \in {"awaiting", "failed"} THEN Len(pages) + 1 ELSE Len(pages)

(***************************************************************************)
(* C25: lazy iteration.  In a paginateAll walk the requests that exist are *)
(* always those of one page: of page k + 1 only once pages 1..k have been  *)
(* yielded and the consumer asked again, and while page k is yielded (or   *)
(* the walk is over) they are still those of page k, all answered, so a    *)
(* consumer that stops there leaves no request for a later page.           *)
(***************************************************************************)
C25_LazyIteration ==
    (mode = "paginateAll" /\ pc # "start") =>
        /\ callOpts = PaginationOptions(opts, PageCursor(FetchedPage), "next")
        /\ pc # "failed" =>
              queries = buildAndExecuteQuery(baseQuery,
                           paginatedQueryOptions(callOpts)).queries
        /\ pc \in {"yielded", "done"} =>
              /\ \A j \in 1..Len(snapshots) : snapshots[j].status = "ok"
              /\ LastPage = paginationResult(merged, callOpts)
        /\ pc = "awaiting" => \A k \in 1..Len(pages) : pages[k].hasNextPage

\* the second page is yielded, more pages exist, and the consumer has not
\* asked for the third
C25_Witness ==
    /\ mode = "paginateAll"
    /\ pc = "yielded"
    /\ Len(pages) = 2
    /\ LastPage.hasNextPage
    /\ Len(queries) >= 2
    /\ callOpts.cursor = pages[1].nextCursor

\* the two invocations: the one the variables hold and the other one
Calls == {ActiveFrame, iterators.suspended} \ {NoFrame}

\* the queries an invocation builds from its own options
PlanOf(f) ==
    IF mode = "query" THEN buildAndExecuteQuery(baseQuery, QueryOptions(opts))
    ELSE buildAndExecuteQuery(baseQuery, paginatedQueryOptions(f.callOpts))

\* what the backend answers to the j-th query of a plan
AnswerOf(plan, j) ==
    LET ids == RunQuery(coll, plan.queries[j])
    IN  [status |-> "ok", docs |-> [i \in 1..Len(ids) |-> [id |-> ids[i], q |-> j]]]

\* the records an invocation returns when it runs alone
SoloRecords(plan) ==
    LET answers == [j \in 1..Len(plan.queries) |-> AnswerOf(plan, j)]
    IN  IF plan.viaMerge THEN executeAndMergeQueries(answers) ELSE answers[1].docs

\* an invocation holds only what it holds when it runs alone
Independent(f) ==
    LET plan == PlanOf(f)
        solo == SoloRecords(plan)
    IN  /\ f.pc \in {"awaiting", "returned"} =>
              /\ f.queries = plan.queries
              /\ \A j \in 1..Len(f.snapshots) :
                    f.snapshots[j].status = "ok" =>
                        f.snapshots[j] = AnswerOf(plan, j)
        /\ f.pc = "returned" =>
              /\ f.merged = solo
              /\ mode = "call" =>
                    f.pages[Len(f.pages)] = paginationResult(solo, f.callOpts)

(***************************************************************************)
(* C26: independence of concurrent calls.  With two callers of paginate or *)
(* of buildAndExecuteQuery whose requests are answered in any              *)
(* interleaving, every call that has returned holds exactly the records    *)
(* (and, for paginate, the page) it returns when run alone with its own    *)
(* cursor and direction, every request of a call is a request for one of   *)
(* that call's own queries, and no step changes the caller's options       *)
(* object or the collection.                                               *)
(***************************************************************************)
C26_ConcurrentCallsIndependent ==
    /\ [](\A f \in Calls : Independent(f))
    /\ [][opts' = opts /\ coll' = coll]_vars

\* both callers have returned from merged calls made with different cursors,
\* and the first caller's call returned after the second caller had started
C26_Witness ==
    /\ mode = "call"
    /\ iterators.suspended # NoFrame
    /\ \A f \in Calls : f.pc = "returned" /\ f.viaMerge /\ f.merged # <<>>
    /\ callOpts.cursor # iterators.suspended.callOpts.cursor
    /\ callOpts.direction # iterators.suspended.callOpts.direction
    /\ pages[1].hasNextPage
    /\ iterators.active = 1
    /\ iterators.firstHad = 0

\* the number of chunks a predicate is split into (1 when it is not split)
ChunkCount(cl) ==
    IF cl.operator \in {"in", "array-contains-any"} /\ cl.value.isArray
       /\ Len(cl.value.items) > SplitThreshold
    THEN CeilDiv(Len(cl.value.items), ChunkSize)
    ELSE 1

RECURSIVE ProductOfChunkCounts(_)
ProductOfChunkCounts(group) ==
    IF group = <<>> THEN 1
    ELSE ChunkCount(Head(group)) * ProductOfChunkCounts(Tail(group))

RECURSIVE SumOverGroups(_)
SumOverGroups(groups) ==
    IF groups = <<>> THEN 0
    ELSE ProductOfChunkCounts(Head(groups)) + SumOverGroups(Tail(groups))

\* the AND groups of a filter
AndGroups(o) == IF o.hasOrWhere THEN o.orWhere ELSE <<o.where>>

\* the call has built its queries (Query.where did not throw)
CallBuilt == pc # "start" /\ error # "invalid query"

(***************************************************************************)
(* C27: request count.  A call that has built its queries has exactly one  *)
(* request per query, no request is answered twice, and the number of      *)
(* requests is 1, with an empty predicate chain, when neither where nor    *)
(* orWhere is given, and otherwise the sum over the AND groups of the      *)
(* product of the chunk counts of the group's predicates.                  *)
(***************************************************************************)
C27_RequestCount ==
    CallBuilt =>
        /\ Len(snapshots) = Len(queries)
        /\ \A a, b \in 1..Len(completed) : completed[a] = completed[b] => a = b
        /\ \A a \in 1..Len(completed) : completed[a] \in 1..Len(queries)
        /\ IF ~opts.hasWhere /\ ~opts.hasOrWhere
           THEN Len(queries) = 1 /\ queries[1].where = <<>>
           ELSE Len(queries) = SumOverGroups(AndGroups(opts))

\* a call with two predicates of two chunks each has four requests, all
\* answered
C27_Witness ==
    /\ CallBuilt
    /\ pc = "returned"
    /\ Len(opts.where) = 2
    /\ ChunkCount(opts.where[1]) = 2
    /\ ChunkCount(opts.where[2]) = 2
    /\ Len(queries) = 4
    /\ Len(completed) = 4

\* the options of the call that is under way
CurrentOptions ==
    IF mode = "query" THEN QueryOptions(opts) ELSE paginatedQueryOptions(callOpts)

(***************************************************************************)
(* C28: when both where and orWhere are supplied, the executed queries are *)
(* those of the orWhere groups alone: they are the queries built from the  *)
(* same options without where, none of them carries a predicate of where,  *)
(* and an uncapped call returns the union of the groups' matches.          *)
(***************************************************************************)
C28_OrWhereShadowsWhere ==
    (CallBuilt /\ opts.hasWhere /\ opts.hasOrWhere) =>
        /\ queries = buildAndExecuteQuery(baseQuery,
                         [CurrentOptions EXCEPT !.hasWhere = FALSE,
                                                !.where = <<>>]).queries
        /\ \A j \in 1..Len(queries) : \A k \in 1..Len(queries[j].where) :
              queries[j].where[k] \notin Range(opts.where)
        /\ (mode = "query" /\ pc = "returned" /\ opts.offset = 0) =>
              Ids(merged) = {id \in Range(DocIds(coll)) :
                               \E g \in 1..Len(opts.orWhere) :
                                   MatchesAll(coll, id, opts.orWhere[g])}

\* a call with where and orWhere returned records, none of which matches where
C28_Witness ==
    /\ CallBuilt
    /\ mode = "query"
    /\ pc = "returned"
    /\ opts.hasWhere /\ opts.hasOrWhere
    /\ opts.where # <<>>
    /\ merged # <<>>
    /\ \A j \in 1..Len(merged) : ~MatchesAll(coll, merged[j].id, opts.where)

(***************************************************************************)
(* C29: with orWhere supplied as an empty list a call builds no query and  *)
(* issues no request; it can only fail, with 'No snapshots returned', and  *)
(* never returns a result, neither all records nor an empty one.           *)
(***************************************************************************)
C29_EmptyOrWhereFails ==
    (pc # "start" /\ opts.hasOrWhere /\ opts.orWhere = <<>>) =>
        /\ queries = <<>>
        /\ snapshots = <<>>
        /\ completed = <<>>
        /\ pages = <<>>
        /\ merged = <<>>
        /\ pc \in {"awaiting", "failed"}
        /\ pc = "awaiting" => ENABLED Resume
        /\ pc = "failed" => error = "No snapshots returned"

\* a call with an empty orWhere failed over a collection that has records
C29_Witness ==
    /\ opts.hasOrWhere
    /\ opts.orWhere = <<>>
    /\ pc = "failed"
    /\ error = "No snapshots returned"
    /\ coll.n > 0
    /\ mode \in {"query", "paginateAll"}

\* every page that announces a next page gives a cursor for it that lies
\* strictly after the cursor the page was fetched with
CursorAdvances ==
    \A k \in 1..Len(pages) :
        pages[k].hasNextPage =>
            /\ pages[k].nextCursor # NoDoc
            /\ k > 1 => Before(coll, PageCursor(k).id, pages[k].nextCursor.id,
                               ResolveOrderBy(opts.orderBy))

\* the walk is over: the last page yielded has no next page and no request
\* is outstanding
WalkExhausted ==
    /\ pc = "done"
    /\ pages # <<>>
    /\ ~LastPage.hasNextPage
    /\ \A j \in 1..Len(snapshots) : snapshots[j].status = "ok"

====
